---------------------------- MODULE Spec2Model ----------------------------
(***************************************************************************)
(* ORA memory API (src/memory.py, src/main.py): a Flask blueprint whose    *)
(* six handlers each open their own SQLite connection on ora_memory.db.    *)
(*                                                                         *)
(* The model keeps the committed database (tables users and conversations, *)
(* the AUTOINCREMENT sequence), SQLite's database-wide write lock with the *)
(* uncommitted view of the connection that holds it, the wall clock, and   *)
(* for every worker its position inside the handler it is running, the     *)
(* request body, the handler's local variables and the response.           *)
(*                                                                         *)
(* Python's sqlite3 opens a transaction implicitly before INSERT/UPDATE    *)
(* and not before SELECT: every SELECT reads the last committed state, the *)
(* first INSERT/UPDATE of a handler takes the write lock, conn.commit()    *)
(* publishes the view and releases the lock, and a connection dropped      *)
(* without commit (the except branch) rolls back.                          *)
(*                                                                         *)
(* Time is counted in days; timestamps are the clock values read by        *)
(* datetime.now(); isoformat() strings of one format compare as the times  *)
(* they denote, so timestamps are compared as integers.                    *)
(***************************************************************************)
EXTENDS Integers, Sequences, FiniteSets, TLC

\* ------------------------------------------------------------- bounds
\* Largest value (in days since the start) the clock advances to.
MaxClock == 1
\* Conversation records a run of Spec, SpecSeq or SpecProfile saves at most.
MaxConvs == 2
\* Conversation records in a database SpecLog starts from, at most.
MaxLog == 5
\* Largest timestamp of a record in a database SpecLog starts from.
MaxStamp == 3
\* Conversation records in a database SpecLong starts from, at most.
MaxLong == 6
\* update-profile requests that pass validation, per run.
MaxUpdates == 1

\* ------------------------------------------------------------- values
\* Python None / SQL NULL / a key absent from dict.get.
None == "None"

Procs == {"p1", "p2"}

UserIds == {"u1", "u2"}

\* The keys update_profile looks for in the body.
RecognizedKeys ==
  {"name", "personality_type", "communication_style", "onboarding_complete",
   "preferences"}

\* LIMIT 5 of the get-context window.
ContextWindow == 5
\* [-3:] of the get-context window.
QuotedExchanges == 3
\* data.get('limit', 50)
DefaultLimit == 50
\* timedelta(days=7)
WeekDays == 7

Min(a, b) == IF a < b THEN a ELSE b

Max(a, b) == IF a > b THEN a ELSE b

\* Python truthiness of an optional string: None and '' are falsy.
Truthy(s) == s # None /\ s # ""

\* dict.get(k) on the request body.
HasKey(data, k) == k \in DOMAIN data

\* `not user_id` / all([...]) on a body field: absent, None and '' fail.
Present(data, k) == HasKey(data, k) /\ Truthy(data[k])

\* SQLite stores Python True/False as the integers 1/0.
BoolToInt(b) == IF b THEN 1 ELSE 0

\* bool(user['onboarding_complete'])
IntToBool(i) == i # 0

\* json.dumps of the preferences value: the stored column is JSON text, and
\* None is stored as the text 'null', not as SQL NULL.
JsonDumps(v) ==
  CASE v = None -> "null"
    [] v = "dark" -> "{\"theme\": \"dark\"}"
    [] OTHER -> "\"\""

\* ------------------------------------------------------------- state
VARIABLES
  db,     \* committed database: [users, conversations, seq]
  lock,   \* worker whose connection holds the write lock, or None
  view,   \* the lock holder's uncommitted database (db when the lock is free)
  now,    \* latest value datetime.now() has returned
  pc,     \* pc[p]: where worker p stands in its handler ("idle": none running)
  req,    \* req[p]: [op, data] of the request p runs
  loc,    \* loc[p]: the handler's local variables
  out,    \* the response returned last, with the request, the label and the
          \* locals of the handler that returned it; empty once another
          \* request starts
  hist    \* bookkeeping of the run (not program state), read by the properties

vars == <<db, lock, view, now, pc, req, loc, out, hist>>

\* The values datetime.now() may return after it returned t: the clock does
\* not go back, and the model lets it advance up to MaxClock.
Later(t) == t..Max(t, MaxClock)

\* ------------------------------------------------------------- tables
\* A row of users as get_user_context inserts it: the columns the INSERT does
\* not name are NULL (name, personality_type, communication_style,
\* preferences).
NewProfile(u, t) ==
  [user_id |-> u, name |-> None, personality_type |-> None,
   communication_style |-> None, first_visit |-> t, last_visit |-> t,
   onboarding_complete |-> BoolToInt(FALSE), preferences |-> None,
   total_conversations |-> 0]

\* SELECT * FROM users WHERE user_id = ?  (the rows: none or one)
SelectUser(v, u) == {r \in v.users : r.user_id = u}

\* InsertUser with the row lost: the INSERT is issued but nothing is stored.
InsertUserLost(v, u, t) == v

\* InsertUser that stores the row under another user_id.
InsertUserMisfiled(v, u, t) ==
  [v EXCEPT !.users = @ \cup {NewProfile(IF u = "u1" THEN "u2" ELSE "u1", t)}]

\* INSERT INTO users (user_id, first_visit, last_visit, onboarding_complete,
\* total_conversations); user_id is the PRIMARY KEY, checked by the caller.
InsertUser(v, u, t) == [v EXCEPT !.users = @ \cup {NewProfile(u, t)}]

\* UPDATE users SET last_visit = ? WHERE user_id = ?
UpdateLastVisit(v, u, t) ==
  [v EXCEPT !.users =
     {IF r.user_id = u THEN [r EXCEPT !.last_visit = t] ELSE r : r \in @}]

\* UpdateCounter without the increment: only last_visit is set.
UpdateCounterNoIncrement(v, u, t) ==
  [v EXCEPT !.users =
     {IF r.user_id = u THEN [r EXCEPT !.last_visit = t] ELSE r : r \in @}]

\* UpdateCounter that adds 2.
UpdateCounterTwice(v, u, t) ==
  [v EXCEPT !.users =
     {IF r.user_id = u
        THEN [r EXCEPT !.total_conversations = @ + 2, !.last_visit = t]
        ELSE r : r \in @}]

\* UPDATE users SET total_conversations = total_conversations + 1,
\* last_visit = ? WHERE user_id = ?   (no row matches: nothing changes)
UpdateCounter(v, u, t) ==
  [v EXCEPT !.users =
     {IF r.user_id = u
        THEN [r EXCEPT !.total_conversations = @ + 1, !.last_visit = t]
        ELSE r : r \in @}]

\* The value update_profile binds for a recognized key of the body.
BoundValue(data, k) ==
  CASE k = "onboarding_complete" -> BoolToInt(data[k])
    [] k = "preferences" -> JsonDumps(data[k])
    [] OTHER -> data[k]

\* The value of column k after update_profile's SET list: the bound value
\* when the body has the key, the old value otherwise.
SetColumn(r, data, k) == IF HasKey(data, k) THEN BoundValue(data, k) ELSE r[k]

\* PatchedRow that also resets the counter.
PatchedRowResetsCounter(r, data, t) ==
  [r EXCEPT !.name = SetColumn(r, data, "name"),
            !.personality_type = SetColumn(r, data, "personality_type"),
            !.communication_style = SetColumn(r, data, "communication_style"),
            !.onboarding_complete = SetColumn(r, data, "onboarding_complete"),
            !.preferences = SetColumn(r, data, "preferences"),
            !.total_conversations = 0,
            !.last_visit = t]

\* A users row after SET k = ? for the recognized keys of the body, and
\* last_visit = ?.
PatchedRow(r, data, t) ==
  [r EXCEPT !.name = SetColumn(r, data, "name"),
            !.personality_type = SetColumn(r, data, "personality_type"),
            !.communication_style = SetColumn(r, data, "communication_style"),
            !.onboarding_complete = SetColumn(r, data, "onboarding_complete"),
            !.preferences = SetColumn(r, data, "preferences"),
            !.last_visit = t]

\* UPDATE users SET <fields>, last_visit = ? WHERE user_id = ?
UpdateFields(v, u, data, t) ==
  [v EXCEPT !.users =
     {IF r.user_id = u THEN PatchedRow(r, data, t) ELSE r : r \in @}]

\* The id AUTOINCREMENT gives the next row: one more than the largest id the
\* table has ever held (sqlite_sequence), under the connection's view.
NextRowId(v) == v.seq + 1

\* InsertConversation without AUTOINCREMENT's bookkeeping: the row gets the
\* next id but the sequence is not advanced.
InsertConversationSameId(v, data, t) ==
  LET row == [id |-> NextRowId(v), user_id |-> data["user_id"], timestamp |-> t,
              user_message |-> data["user_message"],
              ora_response |-> data["ora_response"],
              emotion |-> "", topic |-> "", session_id |-> ""]
  IN [v EXCEPT !.conversations = Append(@, row)]

\* InsertConversation that reuses the id of the last row and puts the new
\* row in its place.
InsertConversationOverLast(v, data, t) ==
  LET row == [id |-> Max(1, v.seq), user_id |-> data["user_id"], timestamp |-> t,
              user_message |-> data["user_message"],
              ora_response |-> data["ora_response"],
              emotion |-> "", topic |-> "", session_id |-> ""]
  IN [v EXCEPT !.conversations =
                 IF @ = <<>> THEN <<row>> ELSE [@ EXCEPT ![Len(@)] = row],
               !.seq = Max(1, v.seq)]

\* INSERT INTO conversations (user_id, timestamp, user_message, ora_response,
\* emotion, topic, session_id); no foreign key is enforced (SQLite's default).
InsertConversation(v, data, t) ==
  LET row == [id |-> NextRowId(v), user_id |-> data["user_id"], timestamp |-> t,
              user_message |-> data["user_message"],
              ora_response |-> data["ora_response"],
              emotion |-> IF HasKey(data, "emotion") THEN data["emotion"] ELSE "",
              topic |-> IF HasKey(data, "topic") THEN data["topic"] ELSE "",
              session_id |->
                IF HasKey(data, "session_id") THEN data["session_id"] ELSE ""]
  IN [v EXCEPT !.conversations = Append(@, row), !.seq = NextRowId(v)]

\* The conversations rows of user u, as a set.
RowsOf(v, u) ==
  {v.conversations[i] : i \in {j \in DOMAIN v.conversations :
                                 v.conversations[j].user_id = u}}

\* SELECT COUNT(*) FROM conversations WHERE user_id = ?
CountFor(v, u) ==
  Cardinality({j \in DOMAIN v.conversations : v.conversations[j].user_id = u})

\* SELECT COUNT(*) ... WHERE user_id = ? AND timestamp > ?
CountSince(v, u, since) ==
  Cardinality({j \in DOMAIN v.conversations :
                 /\ v.conversations[j].user_id = u
                 /\ v.conversations[j].timestamp > since})

\* ORDER BY timestamp DESC: every order of the rows S with timestamps
\* non-increasing. SQL leaves the order of rows with equal timestamps open.
RECURSIVE OrderByTimestampDesc(_)
OrderByTimestampDesc(S) ==
  IF S = {} THEN {<<>>}
  ELSE UNION {{<<r>> \o rest : rest \in OrderByTimestampDesc(S \ {r})} :
                r \in {x \in S : \A y \in S : y.timestamp <= x.timestamp}}

\* Limit that lets one row more through.
LimitOneMore(rows, n) ==
  IF n < 0 THEN rows ELSE SubSeq(rows, 1, Min(n + 1, Len(rows)))

\* LIMIT n of SQLite: a negative n is no limit, 0 is no row.
Limit(rows, n) ==
  IF n < 0 THEN rows ELSE SubSeq(rows, 1, Min(n, Len(rows)))

\* SELECT ... FROM conversations WHERE user_id = ? ORDER BY timestamp DESC
\* LIMIT ?  (the results the statement may return)
SelectRecent(v, u, n) ==
  {Limit(rows, n) : rows \in OrderByTimestampDesc(RowsOf(v, u))}

\* ------------------------------------------------------------- context
\* list(rows)[-n:]
LastN(rows, n) == SubSeq(rows, Max(1, Len(rows) - n + 1), Len(rows))

\* reversed(rows)
Reverse(rows) == [i \in 1..Len(rows) |-> rows[Len(rows) + 1 - i]]

\* The two lines appended for each row: f"User: {...}", f"ORA: {...}".
Exchanges(rows) ==
  [i \in 1..(2 * Len(rows)) |->
     IF i % 2 = 1 THEN <<"User: ", rows[(i + 1) \div 2].user_message>>
     ELSE <<"ORA: ", rows[i \div 2].ora_response>>]

\* for conv in reversed(list(recent_conversations)[-3:])
QuotedRows(recent) == Reverse(LastN(recent, QuotedExchanges))

\* ContextParts with the total line for every counter, 0 included.
ContextPartsAlwaysTotal(user, recent) ==
  (IF Truthy(user.name) THEN <<<<"User's name: ", user.name>>>> ELSE <<>>)
  \o (IF Truthy(user.personality_type)
        THEN <<<<"Personality: ", user.personality_type>>>> ELSE <<>>)
  \o (IF Truthy(user.communication_style)
        THEN <<<<"Communication style: ", user.communication_style>>>>
        ELSE <<>>)
  \o <<<<"Total conversations: ", ToString(user.total_conversations)>>>>
  \o (IF recent # <<>>
        THEN <<<<"Recent conversation history:">>>>
             \o Exchanges(QuotedRows(recent))
        ELSE <<>>)

\* context_parts: the lines, each a tuple of the pieces its f-string joins.
ContextParts(user, recent) ==
  (IF Truthy(user.name) THEN <<<<"User's name: ", user.name>>>> ELSE <<>>)
  \o (IF Truthy(user.personality_type)
        THEN <<<<"Personality: ", user.personality_type>>>> ELSE <<>>)
  \o (IF Truthy(user.communication_style)
        THEN <<<<"Communication style: ", user.communication_style>>>>
        ELSE <<>>)
  \o (IF user.total_conversations > 0
        THEN <<<<"Total conversations: ", ToString(user.total_conversations)>>>>
        ELSE <<>>)
  \o (IF recent # <<>>
        THEN <<<<"Recent conversation history:">>>>
             \o Exchanges(QuotedRows(recent))
        ELSE <<>>)

\* The separator the source joins with: the literal "\\n" of memory.py, which
\* is the two characters backslash and n.
JoinSeparator == <<"\\n">>

\* sep.join(parts): the pieces of the resulting string, in order.
Join(parts, sep) ==
  [i \in 1..(2 * Len(parts) - 1) |->
     IF i % 2 = 1 THEN parts[(i + 1) \div 2] ELSE sep]

\* context = "\\n".join(context_parts) if context_parts else "Returning ..."
Context(user, recent) ==
  LET parts == ContextParts(user, recent)
  IN IF parts # <<>> THEN Join(parts, JoinSeparator)
     ELSE <<<<"Returning user with no previous context">>>>

\* ExistingUserBody that counts the records quoted in the text.
ExistingUserBodyCountsQuoted(u, user, recent) ==
  [is_new_user |-> FALSE, user_id |-> u, name |-> user.name,
   personality_type |-> user.personality_type,
   communication_style |-> user.communication_style,
   onboarding_complete |-> IntToBool(user.onboarding_complete),
   total_conversations |-> user.total_conversations,
   context |-> Context(user, recent),
   recent_conversations_count |-> Len(QuotedRows(recent))]

\* The JSON body get_user_context returns for an existing user.
ExistingUserBody(u, user, recent) ==
  [is_new_user |-> FALSE, user_id |-> u, name |-> user.name,
   personality_type |-> user.personality_type,
   communication_style |-> user.communication_style,
   onboarding_complete |-> IntToBool(user.onboarding_complete),
   total_conversations |-> user.total_conversations,
   context |-> Context(user, recent),
   recent_conversations_count |-> Len(recent)]

\* The JSON body get_user_context returns after creating the profile.
NewUserBody(u) ==
  [is_new_user |-> TRUE, user_id |-> u,
   context |-> <<<<"New user - start onboarding">>>>,
   onboarding_complete |-> FALSE, total_conversations |-> 0,
   suggested_response |->
     "Hi! I'm ORA, your wellness companion. What's your name?"]

\* ------------------------------------------------------------- workers
\* The locals of a handler before it has assigned any.
InitLoc == [user |-> {}, rows |-> <<>>, t |-> 0, total |-> 0, n |-> 0]

\* No request.
NoReq == [op |-> "none", data |-> [none |-> None]]

\* No response.
NoOut == [op |-> "none", data |-> [none |-> None], at |-> "idle",
          loc |-> InitLoc, status |-> 0, body |-> [error |-> None]]

\* jsonify({'error': ...}), code
ErrorResp(code, msg) == [status |-> code, body |-> [error |-> msg]]

\* jsonify(body) with the default status 200
OkResp(body) == [status |-> 200, body |-> body]

\* A request reaches an idle worker and its handler starts.
Begin(p) == pc[p] = "idle"

\* The handler goes on at label l with the request r and the locals l0.
Enter(p, r, l0, l) ==
  /\ pc' = [pc EXCEPT ![p] = l]
  /\ req' = [req EXCEPT ![p] = r]
  /\ loc' = [loc EXCEPT ![p] = l0]
  /\ out' = NoOut

\* The handler of request r, standing at pc[p] with locals l0, returns the
\* response x: the worker is idle again and its locals are gone.
ReturnFrom(p, r, l0, x) ==
  /\ out' = [op |-> r.op, data |-> r.data, at |-> pc[p], loc |-> l0,
             status |-> x.status, body |-> x.body]
  /\ pc' = [pc EXCEPT ![p] = "idle"]
  /\ req' = [req EXCEPT ![p] = NoReq]
  /\ loc' = [loc EXCEPT ![p] = InitLoc]

\* The handler under way at worker p returns x.
Return(p, x) == ReturnFrom(p, req[p], loc[p], x)

\* The handler goes on at label l.
Goto(p, l) ==
  /\ pc' = [pc EXCEPT ![p] = l]
  /\ UNCHANGED <<req, loc, out>>

\* The handler goes on at label l with its local k set to x.
GotoWith(p, l, k, x) ==
  /\ pc' = [pc EXCEPT ![p] = l]
  /\ loc' = [loc EXCEPT ![p] = [@ EXCEPT ![k] = x]]
  /\ UNCHANGED <<req, out>>

\* conn.commit(): the connection's view becomes the committed database and
\* the write lock is released.
Commit(p) ==
  /\ lock = p
  /\ db' = view
  /\ view' = view
  /\ lock' = None

\* Rollback of a connection in autocommit mode: what the dropped connection
\* had written stays.
RollbackPublishes(p) ==
  /\ lock' = IF lock = p THEN None ELSE lock
  /\ db' = IF lock = p THEN view ELSE db
  /\ view' = IF lock = p THEN view ELSE view

\* The connection is dropped with its transaction open (the except branch
\* returns without commit): SQLite rolls the transaction back.
Rollback(p) ==
  /\ lock' = IF lock = p THEN None ELSE lock
  /\ view' = IF lock = p THEN db ELSE view
  /\ UNCHANGED db

\* The request of a handler.
Req(op, data) == [op |-> op, data |-> data]

\* The user_id of the request worker p runs.
Uid(p) == req[p].data["user_id"]

\* ------------------------------------------------------------- get-context
\* POST /get-context: the body is read, user_id checked, the profile selected.
GetContext(p, data) ==
  /\ Begin(p)
  /\ IF ~Present(data, "user_id")
       THEN ReturnFrom(p, Req("get-context", data), InitLoc,
                       ErrorResp(400, "user_id is required"))
       ELSE LET user == SelectUser(db, data["user_id"])
            IN Enter(p, Req("get-context", data),
                     [InitLoc EXCEPT !.user = user],
                     IF user = {} THEN "gc_new_now" ELSE "gc_recent")
  /\ UNCHANGED <<db, lock, view, now, hist>>

\* New user: now = datetime.now().isoformat()
GcNewNow(p) ==
  /\ pc[p] = "gc_new_now"
  /\ \E t \in Later(now) :
       /\ now' = t
       /\ GotoWith(p, "gc_insert", "t", t)
  /\ UNCHANGED <<db, lock, view, hist>>

\* GcInsert on a table without the PRIMARY KEY: the INSERT succeeds whatever
\* rows the table holds.
GcInsertNoPrimaryKey(p) ==
  /\ pc[p] = "gc_insert"
  /\ lock = None
  /\ lock' = p
  /\ view' = InsertUser(db, Uid(p), loc[p].t)
  /\ Goto(p, "gc_new_commit")
  /\ UNCHANGED <<db, now, hist>>

\* New user: INSERT INTO users. The statement takes the write lock; a row
\* with this user_id committed meanwhile violates the PRIMARY KEY and the
\* handler returns 500 from its except branch.
GcInsert(p) ==
  /\ pc[p] = "gc_insert"
  /\ lock = None
  /\ IF SelectUser(db, Uid(p)) # {}
       THEN /\ Return(p, ErrorResp(500, "UNIQUE constraint failed: users.user_id"))
            /\ UNCHANGED <<lock, view>>
       ELSE /\ lock' = p
            /\ view' = InsertUser(db, Uid(p), loc[p].t)
            /\ Goto(p, "gc_new_commit")
  /\ UNCHANGED <<db, now, hist>>

\* New user: conn.commit(), conn.close(), the new-user response.
GcNewCommit(p) ==
  /\ pc[p] = "gc_new_commit"
  /\ Commit(p)
  /\ Return(p, OkResp(NewUserBody(Uid(p))))
  /\ hist' = [hist EXCEPT !.newUser[Uid(p)] = Min(@ + 1, 2)]
  /\ UNCHANGED now

\* Existing user: SELECT ... ORDER BY timestamp DESC LIMIT 5, fetchall().
GcRecent(p) ==
  /\ pc[p] = "gc_recent"
  /\ \E rows \in SelectRecent(db, Uid(p), ContextWindow) :
       GotoWith(p, "gc_now", "rows", rows)
  /\ UNCHANGED <<db, lock, view, now, hist>>

\* Existing user: datetime.now().isoformat(), the argument of the UPDATE.
GcNow(p) ==
  /\ pc[p] = "gc_now"
  /\ \E t \in Later(now) :
       /\ now' = t
       /\ GotoWith(p, "gc_update", "t", t)
  /\ UNCHANGED <<db, lock, view, hist>>

\* Existing user: UPDATE users SET last_visit = ?
GcUpdate(p) ==
  /\ pc[p] = "gc_update"
  /\ lock = None
  /\ lock' = p
  /\ view' = UpdateLastVisit(db, Uid(p), loc[p].t)
  /\ Goto(p, "gc_commit")
  /\ UNCHANGED <<db, now, hist>>

\* Existing user: conn.commit(), conn.close(), the context is built from the
\* row and the window read before, and returned.
GcCommit(p) ==
  /\ pc[p] = "gc_commit"
  /\ Commit(p)
  /\ \E user \in loc[p].user :
       Return(p, OkResp(ExistingUserBody(Uid(p), user, loc[p].rows)))
  /\ UNCHANGED <<now, hist>>

\* ------------------------------------------------------------- save-conversation
\* POST /save-conversation: the body is read and checked; the INSERT's
\* timestamp argument datetime.now().isoformat() is evaluated.
SaveConversation(p, data) ==
  /\ Begin(p)
  /\ IF ~(/\ Present(data, "user_id")
          /\ Present(data, "user_message")
          /\ Present(data, "ora_response"))
       THEN /\ ReturnFrom(p, Req("save-conversation", data), InitLoc,
                 ErrorResp(400,
                   "user_id, user_message, and ora_response are required"))
            /\ UNCHANGED now
       ELSE \E t \in Later(now) :
              /\ now' = t
              /\ Enter(p, Req("save-conversation", data),
                       [InitLoc EXCEPT !.t = t], "sc_insert")
  /\ UNCHANGED <<db, lock, view, hist>>

\* INSERT INTO conversations: takes the write lock.
ScInsert(p) ==
  /\ pc[p] = "sc_insert"
  /\ lock = None
  /\ lock' = p
  /\ view' = InsertConversation(db, req[p].data, loc[p].t)
  /\ Goto(p, "sc_now")
  /\ UNCHANGED <<db, now, hist>>

\* datetime.now().isoformat(), the argument of the UPDATE.
ScNow(p) ==
  /\ pc[p] = "sc_now"
  /\ \E t \in Later(now) :
       /\ now' = t
       /\ GotoWith(p, "sc_update", "t", t)
  /\ UNCHANGED <<db, lock, view, hist>>

\* UPDATE users SET total_conversations = total_conversations + 1,
\* last_visit = ?, in the transaction the INSERT opened.
ScUpdate(p) ==
  /\ pc[p] = "sc_update"
  /\ lock = p
  /\ view' = UpdateCounter(view, Uid(p), loc[p].t)
  /\ Goto(p, "sc_commit")
  /\ UNCHANGED <<db, lock, now, hist>>

\* conn.commit(), conn.close(), the response with its own datetime.now().
\* hist counts the save, and counts it apart when the profile existed.
ScCommit(p) ==
  /\ pc[p] = "sc_commit"
  /\ Commit(p)
  /\ \E t \in Later(now) :
       /\ now' = t
       /\ Return(p, OkResp([status |-> "saved", user_id |-> Uid(p),
                            timestamp |-> t]))
  /\ hist' = [hist EXCEPT
       !.saved[Uid(p)] = @ + 1,
       !.counted[Uid(p)] = IF SelectUser(view, Uid(p)) # {} THEN @ + 1 ELSE @]

\* ------------------------------------------------------------- update-profile
\* UpdateProfile without the 'No fields to update' check: a body with no
\* recognized key goes on to the UPDATE, which then sets last_visit alone.
UpdateProfileUnchecked(p, data) ==
  /\ Begin(p)
  /\ IF ~Present(data, "user_id")
       THEN /\ ReturnFrom(p, Req("update-profile", data), InitLoc,
                          ErrorResp(400, "user_id is required"))
            /\ UNCHANGED <<now, hist>>
       ELSE /\ \E t \in Later(now) :
                 /\ now' = t
                 /\ Enter(p, Req("update-profile", data),
                          [InitLoc EXCEPT !.t = t], "up_update")
            /\ hist' = [hist EXCEPT !.updates = @ + 1]
  /\ UNCHANGED <<db, lock, view>>

\* POST /update-profile: the body is read, user_id checked, the SET list built
\* from the recognized keys present, and last_visit's datetime.now() read.
UpdateProfile(p, data) ==
  /\ Begin(p)
  /\ IF ~Present(data, "user_id")
       THEN /\ ReturnFrom(p, Req("update-profile", data), InitLoc,
                          ErrorResp(400, "user_id is required"))
            /\ UNCHANGED <<now, hist>>
       ELSE IF DOMAIN data \cap RecognizedKeys = {}
       THEN /\ ReturnFrom(p, Req("update-profile", data), InitLoc,
                          ErrorResp(400, "No fields to update"))
            /\ UNCHANGED <<now, hist>>
       ELSE /\ \E t \in Later(now) :
                 /\ now' = t
                 /\ Enter(p, Req("update-profile", data),
                          [InitLoc EXCEPT !.t = t], "up_update")
            /\ hist' = [hist EXCEPT !.updates = @ + 1]
  /\ UNCHANGED <<db, lock, view>>

\* cursor.execute(query, values): the UPDATE takes the write lock.
UpUpdate(p) ==
  /\ pc[p] = "up_update"
  /\ lock = None
  /\ lock' = p
  /\ view' = UpdateFields(db, Uid(p), req[p].data, loc[p].t)
  /\ Goto(p, "up_commit")
  /\ UNCHANGED <<db, now, hist>>

\* conn.commit(), conn.close(), the response.
UpCommit(p) ==
  /\ pc[p] = "up_commit"
  /\ Commit(p)
  /\ Return(p, OkResp([status |-> "updated", user_id |-> Uid(p),
                       updated_fields |-> DOMAIN req[p].data]))
  /\ UNCHANGED <<now, hist>>

\* ------------------------------------------------------------- search-conversations
\* limit = data.get('limit', 50)
LimitOf(data) == IF HasKey(data, "limit") THEN data["limit"] ELSE DefaultLimit

\* POST /search-conversations: one SELECT, then the response.
SearchConversations(p, data) ==
  /\ Begin(p)
  /\ IF ~Present(data, "user_id")
       THEN ReturnFrom(p, Req("search-conversations", data), InitLoc,
                       ErrorResp(400, "user_id is required"))
       ELSE \E rows \in SelectRecent(db, data["user_id"], LimitOf(data)) :
              ReturnFrom(p, Req("search-conversations", data), InitLoc,
                         OkResp([results |-> rows, count |-> Len(rows),
                                 user_id |-> data["user_id"]]))
  /\ UNCHANGED <<db, lock, view, now, hist>>

\* ------------------------------------------------------------- get-stats
\* StatsNotFound that creates the missing profile before it answers 404.
StatsNotFoundCreates(p, data) ==
  /\ ReturnFrom(p, Req("get-stats", data), InitLoc,
                ErrorResp(404, "User not found"))
  /\ db' = InsertUser(db, data["user_id"], now)
  /\ view' = db'
  /\ UNCHANGED lock

\* get_user_stats when the SELECT finds no row: 404, and nothing is written.
StatsNotFound(p, data) ==
  /\ ReturnFrom(p, Req("get-stats", data), InitLoc,
                ErrorResp(404, "User not found"))
  /\ UNCHANGED <<db, lock, view>>

\* POST /get-stats: the body is read, user_id checked, the profile selected.
GetStats(p, data) ==
  /\ Begin(p)
  /\ IF ~Present(data, "user_id")
       THEN /\ ReturnFrom(p, Req("get-stats", data), InitLoc,
                          ErrorResp(400, "user_id is required"))
            /\ UNCHANGED <<db, lock, view>>
       ELSE LET user == SelectUser(db, data["user_id"])
            IN IF user = {}
                 THEN StatsNotFound(p, data)
                 ELSE /\ Enter(p, Req("get-stats", data),
                               [InitLoc EXCEPT !.user = user], "st_total")
                      /\ UNCHANGED <<db, lock, view>>
  /\ UNCHANGED <<now, hist>>

\* SELECT COUNT(*) as total FROM conversations WHERE user_id = ?
StTotal(p) ==
  /\ pc[p] = "st_total"
  /\ GotoWith(p, "st_now", "total", CountFor(db, Uid(p)))
  /\ UNCHANGED <<db, lock, view, now, hist>>

\* week_ago = (datetime.now() - timedelta(days=7)).isoformat()
StNow(p) ==
  /\ pc[p] = "st_now"
  /\ \E t \in Later(now) :
       /\ now' = t
       /\ GotoWith(p, "st_recent", "t", t - WeekDays)
  /\ UNCHANGED <<db, lock, view, hist>>

\* SELECT COUNT(*) as recent ... AND timestamp > ?, then the response.
StRecent(p) ==
  /\ pc[p] = "st_recent"
  /\ \E user \in loc[p].user :
       Return(p, OkResp(
         [user_id |-> Uid(p), name |-> user.name,
          total_conversations |-> loc[p].total,
          recent_conversations |-> CountSince(db, Uid(p), loc[p].t),
          first_visit |-> user.first_visit, last_visit |-> user.last_visit,
          onboarding_complete |-> IntToBool(user.onboarding_complete)]))
  /\ UNCHANGED <<db, lock, view, now, hist>>

\* ------------------------------------------------------------- get-all-users
\* A row of the admin query: the users columns it selects and COUNT(c.id) of
\* the LEFT JOIN, grouped by user.
AdminRow(v, r) ==
  [user_id |-> r.user_id, name |-> r.name,
   personality_type |-> r.personality_type,
   communication_style |-> r.communication_style,
   first_visit |-> r.first_visit, last_visit |-> r.last_visit,
   total_conversations |-> r.total_conversations,
   onboarding_complete |-> r.onboarding_complete,
   actual_conversations |-> CountFor(v, r.user_id)]

\* ORDER BY u.last_visit DESC: every order with last_visit non-increasing.
RECURSIVE OrderByLastVisitDesc(_)
OrderByLastVisitDesc(S) ==
  IF S = {} THEN {<<>>}
  ELSE UNION {{<<r>> \o rest : rest \in OrderByLastVisitDesc(S \ {r})} :
                r \in {x \in S : \A y \in S : y.last_visit <= x.last_visit}}

\* The calendar date of a timestamp (date().isoformat(), SQLite's DATE()):
\* time is counted in whole days.
DateOf(t) == t

\* GET /get-all-users: the first SELECT (users with their counts).
GetAllUsers(p) ==
  /\ Begin(p)
  /\ \E rows \in OrderByLastVisitDesc({AdminRow(db, r) : r \in db.users}) :
       Enter(p, Req("get-all-users", [none |-> None]),
             [InitLoc EXCEPT !.rows = rows], "au_total_users")
  /\ UNCHANGED <<db, lock, view, now, hist>>

\* SELECT COUNT(DISTINCT user_id) as total_users FROM users
AuTotalUsers(p) ==
  /\ pc[p] = "au_total_users"
  /\ GotoWith(p, "au_total_convs", "total",
              Cardinality({r.user_id : r \in db.users}))
  /\ UNCHANGED <<db, lock, view, now, hist>>

\* SELECT COUNT(*) as total_conversations FROM conversations
AuTotalConvs(p) ==
  /\ pc[p] = "au_total_convs"
  /\ GotoWith(p, "au_today", "n", Len(db.conversations))
  /\ UNCHANGED <<db, lock, view, now, hist>>

\* today = datetime.now().date().isoformat()
AuToday(p) ==
  /\ pc[p] = "au_today"
  /\ \E t \in Later(now) :
       /\ now' = t
       /\ GotoWith(p, "au_active", "t", DateOf(t))
  /\ UNCHANGED <<db, lock, view, hist>>

\* SELECT COUNT(DISTINCT user_id) ... WHERE DATE(last_visit) = ?, then the
\* response.
AuActive(p) ==
  /\ pc[p] = "au_active"
  /\ Return(p, OkResp(
       [users |-> loc[p].rows,
        stats |-> [total_users |-> loc[p].total,
                   total_conversations |-> loc[p].n,
                   active_today |->
                     Cardinality({r.user_id : r \in
                       {x \in db.users : DateOf(x.last_visit) = loc[p].t}})]]))
  /\ UNCHANGED <<db, lock, view, now, hist>>

\* ------------------------------------------------------------- failures
\* Labels at which the handler's next step executes a statement that has to
\* take the write lock.
LockingLabels == {"gc_insert", "gc_update", "sc_insert", "up_update"}

\* Labels at which the handler's next step is a call into sqlite3.
StatementLabels ==
  LockingLabels \cup
  {"gc_new_commit", "gc_recent", "gc_commit", "sc_update", "sc_commit",
   "up_commit", "st_total", "st_recent", "au_total_users", "au_total_convs",
   "au_active"}

\* Another connection holds the write lock for longer than sqlite3's timeout:
\* the statement raises "database is locked", the except branch returns 500.
Busy(p) ==
  /\ pc[p] \in LockingLabels
  /\ lock \notin {None, p}
  /\ Return(p, ErrorResp(500, "database is locked"))
  /\ UNCHANGED <<db, lock, view, now, hist>>

\* A sqlite3 call raises (a storage fault): the except branch returns 500 and
\* the connection is dropped, its open transaction rolled back.
Fault(p) ==
  /\ pc[p] \in StatementLabels
  /\ Rollback(p)
  /\ Return(p, ErrorResp(500, "disk I/O error"))
  /\ UNCHANGED <<now, hist>>

\* ------------------------------------------------------------- requests
\* init_db(): both tables empty.
EmptyDb == [users |-> {}, conversations |-> <<>>, seq |-> 0]

\* The bookkeeping of a run that has served nothing: per user, the responses
\* with is_new_user = true (newUser, counted up to 2), the save-conversation
\* calls that returned 'saved' (saved) and those among them that committed
\* when the user had a profile (counted); and the update-profile requests
\* that passed validation (updates).
NoHist ==
  [newUser |-> [u \in UserIds |-> 0], saved |-> [u \in UserIds |-> 0],
   counted |-> [u \in UserIds |-> 0], updates |-> 0]

Init ==
  /\ db = EmptyDb
  /\ lock = None
  /\ view = EmptyDb
  /\ now = 0
  /\ pc = [p \in Procs |-> "idle"]
  /\ req = [p \in Procs |-> NoReq]
  /\ loc = [p \in Procs |-> InitLoc]
  /\ out = NoOut
  /\ hist = NoHist

\* f restricted to the keys S.
Restrict(f, S) == [k \in S |-> f[k]]

\* Bodies {user_id}.
IdBodies(U) == {[user_id |-> u] : u \in U}

\* Bodies of save-conversation.
SaveBodies(U, M) ==
  {[user_id |-> u, user_message |-> m, ora_response |-> "ok"] : u \in U, m \in M}

\* Bodies of search-conversations, without and with a limit.
SearchBodies(U, L) ==
  {[user_id |-> u] : u \in U} \cup {[user_id |-> u, limit |-> l] : u \in U, l \in L}

\* A body of update-profile with every recognized key.
FullPatch(u, n) ==
  [user_id |-> u, name |-> n, personality_type |-> "INTJ",
   communication_style |-> "direct", onboarding_complete |-> TRUE,
   preferences |-> "dark"]

\* Bodies of update-profile: user_id with the keys of one of Ks.
PatchBodies(U, N, Ks) ==
  {Restrict(FullPatch(u, n), K \cup {"user_id"}) : u \in U, n \in N, K \in Ks}

\* Handlers of save-conversation under way.
Saving == {q \in Procs : pc[q] \in {"sc_insert", "sc_now", "sc_update", "sc_commit"}}

\* The run may take one more save-conversation of at most cap.
CanSave(cap) == Len(db.conversations) + Cardinality(Saving) < cap

\* The run may take one more update-profile.
CanUpdate == hist.updates < MaxUpdates

\* The steps a handler under way takes, whatever the request was.
Step(p) ==
  \/ GcNewNow(p)
  \/ GcInsert(p)
  \/ GcNewCommit(p)
  \/ GcRecent(p)
  \/ GcNow(p)
  \/ GcUpdate(p)
  \/ GcCommit(p)
  \/ ScInsert(p)
  \/ ScNow(p)
  \/ ScUpdate(p)
  \/ ScCommit(p)
  \/ UpUpdate(p)
  \/ UpCommit(p)
  \/ StTotal(p)
  \/ StNow(p)
  \/ StRecent(p)
  \/ AuTotalUsers(p)
  \/ AuTotalConvs(p)
  \/ AuToday(p)
  \/ AuActive(p)

\* ------------------------------------------------------------- Spec
\* Two workers serve the requests that write (get-context, save-conversation,
\* update-profile) and get-stats concurrently, for one user; a statement may
\* find the database locked, and any sqlite3 call may fail.
ConcUsers == {"u1"}

Next ==
  \E p \in Procs :
    \/ \E d \in IdBodies(ConcUsers) : GetContext(p, d)
    \/ CanSave(MaxConvs) /\ \E d \in SaveBodies(ConcUsers, {"hi"}) :
         SaveConversation(p, d)
    \/ CanUpdate /\ \E d \in PatchBodies(ConcUsers, {"Alex"}, {{"name"}}) :
         UpdateProfile(p, d)
    \/ \E d \in IdBodies(ConcUsers) : GetStats(p, d)
    \/ GcNewNow(p)
    \/ GcInsert(p)
    \/ GcNewCommit(p)
    \/ GcRecent(p)
    \/ GcNow(p)
    \/ GcUpdate(p)
    \/ GcCommit(p)
    \/ ScInsert(p)
    \/ ScNow(p)
    \/ ScUpdate(p)
    \/ ScCommit(p)
    \/ UpUpdate(p)
    \/ UpCommit(p)
    \/ StTotal(p)
    \/ StNow(p)
    \/ StRecent(p)
    \/ Busy(p)
    \/ Fault(p)

Spec == Init /\ [][Next]_vars

\* ------------------------------------------------------------- SpecSeq
\* One worker serves the requests one after the other, for two users; ''
\* stands for a missing or empty field of the body.
Worker == "p1"

NextSeq ==
  \/ \E d \in IdBodies(UserIds \cup {""}) : GetContext(Worker, d)
  \/ CanSave(MaxConvs) /\ \E d \in SaveBodies(UserIds, {"hi", ""}) :
       SaveConversation(Worker, d)
  \/ CanUpdate /\ \E d \in PatchBodies(UserIds \cup {""}, {"Alex", ""}, {{}, {"name"}}) :
       UpdateProfile(Worker, d)
  \/ \E d \in SearchBodies(UserIds \cup {""}, {-1, 0, 1}) :
       SearchConversations(Worker, d)
  \/ \E d \in IdBodies(UserIds \cup {""}) : GetStats(Worker, d)
  \/ GetAllUsers(Worker)
  \/ Step(Worker)

SpecSeq == Init /\ [][NextSeq]_vars

\* ------------------------------------------------------------- SpecProfile
\* One worker, two users: get-context, save-conversation, and update-profile
\* with every set of recognized keys.
NextProfile ==
  \/ \E d \in IdBodies(UserIds) : GetContext(Worker, d)
  \/ CanSave(MaxConvs) /\ \E d \in SaveBodies(UserIds, {"hi"}) :
       SaveConversation(Worker, d)
  \/ CanUpdate
       /\ \E d \in PatchBodies(UserIds, {"Alex", ""}, SUBSET RecognizedKeys) :
            UpdateProfile(Worker, d)
  \/ GcNewNow(Worker)
  \/ GcInsert(Worker)
  \/ GcNewCommit(Worker)
  \/ GcRecent(Worker)
  \/ GcNow(Worker)
  \/ GcUpdate(Worker)
  \/ GcCommit(Worker)
  \/ ScInsert(Worker)
  \/ ScNow(Worker)
  \/ ScUpdate(Worker)
  \/ ScCommit(Worker)
  \/ UpUpdate(Worker)
  \/ UpCommit(Worker)

SpecProfile == Init /\ [][NextProfile]_vars

\* ------------------------------------------------------------- SpecLog
\* The body of the k-th save-conversation of a log, for user u: the message
\* and the reply carry the ordinal, so that the records are told apart.
LogBody(u, k) ==
  [user_id |-> u, user_message |-> ToString(k), ora_response |-> ToString(-k)]

\* The database after the save-conversation calls k, k+1, ... of a log are
\* served in order on v: who[k] is the user of the k-th and ts[k] the clock
\* value it reads.
RECURSIVE Replay(_, _, _, _)
Replay(v, who, ts, k) ==
  IF k > Len(who) THEN v
  ELSE Replay(UpdateCounter(InsertConversation(v, LogBody(who[k], k), ts[k]),
                            who[k], ts[k]),
              who, ts, k + 1)

\* The states the run get-context(u1), then n <= MaxLog save-conversation
\* calls for u1 and u2, reaches: u1 has a profile and u2 none, the clock does
\* not go back between the saves and stays within MaxStamp.
InitLog ==
  \E n \in 0..MaxLog :
    \E who \in [1..n -> UserIds], ts \in [1..n -> 0..MaxStamp] :
      /\ \A i \in 1..(n - 1) : ts[i] <= ts[i + 1]
      /\ db = Replay(InsertUser(EmptyDb, "u1", 0), who, ts, 1)
      /\ view = db
      /\ lock = None
      /\ now = IF n = 0 THEN 0 ELSE ts[n]
      /\ pc = [p \in Procs |-> "idle"]
      /\ req = [p \in Procs |-> NoReq]
      /\ loc = [p \in Procs |-> InitLoc]
      /\ out = NoOut
      /\ hist = [newUser |-> [u \in UserIds |-> IF u = "u1" THEN 1 ELSE 0],
                 saved |-> [u \in UserIds |-> CountFor(db, u)],
                 counted |-> [u \in UserIds |->
                                IF u = "u1" THEN CountFor(db, u) ELSE 0],
                 updates |-> 0]

\* One worker serves get-context and search-conversations on such a log.
NextLog ==
  \/ \E d \in IdBodies(UserIds) : GetContext(Worker, d)
  \/ \E d \in SearchBodies(UserIds, {1, 3}) : SearchConversations(Worker, d)
  \/ GcNewNow(Worker)
  \/ GcInsert(Worker)
  \/ GcNewCommit(Worker)
  \/ GcRecent(Worker)
  \/ GcNow(Worker)
  \/ GcUpdate(Worker)
  \/ GcCommit(Worker)

SpecLog == InitLog /\ [][NextLog]_vars

\* ------------------------------------------------------------- SpecLong
\* The states the run get-context(u1), then n <= MaxLong save-conversation
\* calls for u1 and u2, reaches when the clock advances by one between the
\* saves: logs longer than the context window, no two records of one time.
InitLong ==
  \E n \in 0..MaxLong :
    \E who \in [1..n -> UserIds] :
      /\ db = Replay(InsertUser(EmptyDb, "u1", 0), who, [i \in 1..n |-> i], 1)
      /\ view = db
      /\ lock = None
      /\ now = n
      /\ pc = [p \in Procs |-> "idle"]
      /\ req = [p \in Procs |-> NoReq]
      /\ loc = [p \in Procs |-> InitLoc]
      /\ out = NoOut
      /\ hist = [newUser |-> [u \in UserIds |-> IF u = "u1" THEN 1 ELSE 0],
                 saved |-> [u \in UserIds |-> CountFor(db, u)],
                 counted |-> [u \in UserIds |->
                                IF u = "u1" THEN CountFor(db, u) ELSE 0],
                 updates |-> 0]

\* One worker serves get-context and search-conversations on such a log.
SpecLong == InitLong /\ [][NextLog]_vars

\* ------------------------------------------------------------- properties
\* The request whose response is out was a get-context that returned 200.
ContextReturned == out.op = "get-context" /\ out.status = 200

\* C1 (SpecSeq): in a sequence of requests, is_new_user = true is returned
\* exactly once per user_id. No user is ever told twice that it is new; a
\* user has a profile exactly when it has been told so; and a get-context
\* call that returns leaves the profile in place and answers is_new_user =
\* true exactly when it found no profile, which is the first call for that
\* user_id.
C1_NewUserExactlyOnce ==
  /\ \A u \in UserIds :
       /\ hist.newUser[u] <= 1
       /\ (SelectUser(db, u) # {}) <=> (hist.newUser[u] = 1)
  /\ ContextReturned =>
       /\ SelectUser(db, out.data["user_id"]) # {}
       /\ hist.newUser[out.data["user_id"]] = 1
       /\ out.body.is_new_user <=> (out.loc.user = {})

\* A later get-context call for a user told new before returned
\* is_new_user = false.
C1_Witness ==
  /\ ContextReturned
  /\ ~out.body.is_new_user
  /\ hist.newUser[out.data["user_id"]] = 1

\* The stored counter of user u equals n (a user without a profile has no
\* counter).
CounterIs(u, n) == \A r \in SelectUser(db, u) : r.total_conversations = n

\* C2 as stated (SpecSeq): after save-conversation returned 'saved' N times
\* for a user, the log holds N records of the user and the user's stored
\* total_conversations is N.
C2_CounterEqualsSaves ==
  \A u \in UserIds :
    /\ CountFor(db, u) = hist.saved[u]
    /\ CounterIs(u, hist.saved[u])

\* C2 as amended (SpecSeq): after save-conversation returned 'saved' N times
\* for a user, the log holds N records of the user, and the stored
\* total_conversations of a user with a profile is the number of those saves
\* that committed when the profile existed.
C2_CounterEqualsSavesWithProfile ==
  \A u \in UserIds :
    /\ CountFor(db, u) = hist.saved[u]
    /\ CounterIs(u, hist.counted[u])

\* A user with a profile has two saved conversations, both counted.
C2_Witness ==
  \E u \in UserIds :
    /\ SelectUser(db, u) # {}
    /\ hist.saved[u] = 2
    /\ hist.counted[u] = 2

\* The stored counter of user u in v (0 when u has no profile).
Total(v, u) ==
  IF SelectUser(v, u) = {} THEN 0
  ELSE (CHOOSE r \in SelectUser(v, u) : TRUE).total_conversations

\* No two conversation records have the same id.
DistinctIds ==
  \A i, j \in 1..Len(db.conversations) :
    i # j => db.conversations[i].id # db.conversations[j].id

\* Every step adds to the counter of a user with a profile at least as many
\* as the save-conversation calls for that user that return 'saved' in it.
NoLostIncrement ==
  \A u \in UserIds :
    SelectUser(db, u) # {} =>
      /\ SelectUser(db', u) # {}
      /\ Total(db', u) - Total(db, u) >= hist'.saved[u] - hist.saved[u]

RecordAndIncrementTogether ==
  \A u \in UserIds :
    SelectUser(db, u) # {} =>
      CountFor(db', u) - CountFor(db, u) = Total(db', u) - Total(db, u)

\* A save-conversation call that ends in the except branch leaves the
\* committed database as it was, and nothing of what it wrote in its view.
FailedSaveLeavesNothing ==
  \A p \in Procs :
    (/\ pc[p] \in {"sc_insert", "sc_now", "sc_update", "sc_commit"}
     /\ pc'[p] = "idle"
     /\ out'.status = 500)
    => /\ db' = db
       /\ lock = p => (view' = db /\ lock' = None)

Columns ==
  {"user_id", "name", "personality_type", "communication_style", "first_visit",
   "last_visit", "onboarding_complete", "preferences", "total_conversations"}

\* The step is an update-profile call returning 'updated'.
ProfileUpdated ==
  /\ pc[Worker] = "up_commit"
  /\ pc'[Worker] = "idle"
  /\ out'.status = 200

\* C5 (SpecProfile): an update-profile call whose body has the set K of
\* recognized keys and that returns 'updated' changes, in the target's
\* profile, only the columns of K and last_visit: first_visit,
\* total_conversations and the recognized columns outside K keep their
\* values; every other profile and every conversation record is unchanged,
\* and no profile appears or disappears.
C5_UpdateProfileFrame ==
  [][ProfileUpdated =>
       LET u == Uid(Worker)
           K == DOMAIN req[Worker].data \cap RecognizedKeys
       IN /\ db'.conversations = db.conversations
          /\ db'.seq = db.seq
          /\ {r.user_id : r \in db'.users} = {r.user_id : r \in db.users}
          /\ \A r \in db.users : r.user_id # u => r \in db'.users
          /\ \A r \in SelectUser(db, u) : \E r2 \in SelectUser(db', u) :
               \A c \in Columns \ (K \cup {"last_visit"}) : r2[c] = r[c]]_vars

\* update-profile with just a name returned 'updated' for a user who has a
\* profile, a conversation on record and a counter, next to another profile.
C5_Witness ==
  /\ out.op = "update-profile"
  /\ out.status = 200
  /\ DOMAIN out.data = {"user_id", "name"}
  /\ \E r \in SelectUser(db, out.data["user_id"]) :
       /\ r.name = "Alex"
       /\ r.total_conversations = 1
       /\ r.personality_type = None
  /\ Cardinality(db.users) = 2
  /\ Len(db.conversations) > 0

\* C6 as stated (SpecProfile): after update-profile returned 'updated' the
\* profile of that user_id exists and carries the values of the patch.
C6_UpdateCreatesProfile ==
  (out.op = "update-profile" /\ out.status = 200) =>
    \E r \in SelectUser(db, out.data["user_id"]) :
      \A k \in DOMAIN out.data \cap RecognizedKeys :
        r[k] = BoundValue(out.data, k)

\* C7 (SpecSeq): a get-stats call for a user_id without a profile returns
\* 404 and writes nothing: the profiles (their last_visit included), the
\* conversation records, the connection's view and the lock are the same
\* before and after it.
C7_StatsUnknownUser ==
  [][(/\ pc[Worker] = "idle"
      /\ pc'[Worker] = "idle"
      /\ out'.op = "get-stats"
      /\ Present(out'.data, "user_id")
      /\ SelectUser(db, out'.data["user_id"]) = {})
     => (/\ out'.status = 404
         /\ db' = db
         /\ view' = view
         /\ lock' = lock)]_vars

\* get-stats answered 404 for a user without a profile while the database
\* holds another user's profile and conversation records.
C7_Witness ==
  /\ out.op = "get-stats"
  /\ out.status = 404
  /\ SelectUser(db, out.data["user_id"]) = {}
  /\ db.users # {}
  /\ Len(db.conversations) > 0

\* The request whose response is out was a search-conversations with a
\* positive limit that returned 200.
SearchReturned ==
  /\ out.op = "search-conversations"
  /\ out.status = 200
  /\ HasKey(out.data, "limit")
  /\ out.data["limit"] > 0

\* C8 (SpecLog): search-conversations with a positive limit L, for a user
\* with M records, returns min(L, M) records and counts them; they are
\* distinct records of that user, in timestamp-descending order, and no
\* record left out is more recent than one returned.
C8_SearchMostRecent ==
  SearchReturned =>
    LET u == out.data["user_id"]
        rows == out.body.results
        mine == {db.conversations[j] : j \in {i \in DOMAIN db.conversations :
                                               db.conversations[i].user_id = u}}
        got == {rows[i] : i \in 1..Len(rows)}
    IN /\ Len(rows) = Min(out.data["limit"], CountFor(db, u))
       /\ out.body.count = Len(rows)
       /\ got \subseteq mine
       /\ Cardinality(got) = Len(rows)
       /\ \A i \in 1..(Len(rows) - 1) : rows[i].timestamp >= rows[i + 1].timestamp
       /\ \A r \in mine \ got : \A x \in got : r.timestamp <= x.timestamp

\* limit = 1 for a user with 5 records, not all of one time: one record is
\* returned.
C8_Witness ==
  /\ SearchReturned
  /\ out.data["limit"] = 1
  /\ CountFor(db, out.data["user_id"]) = 5
  /\ Len(out.body.results) = 1
  /\ \E j \in DOMAIN db.conversations :
       /\ db.conversations[j].user_id = out.data["user_id"]
       /\ db.conversations[j].timestamp < out.body.results[1].timestamp

\* The lines of a context: the parts between the separators.
Lines(context) == [i \in 1..((Len(context) + 1) \div 2) |-> context[2 * i - 1]]

\* The header of the history block.
HistoryHeader == <<"Recent conversation history:">>

\* The lines of a context after the history header (none without a header).
HistoryLines(context) ==
  LET lines == Lines(context)
      at == {i \in 1..Len(lines) : lines[i] = HistoryHeader}
  IN IF at = {} THEN <<>>
     ELSE SubSeq(lines, (CHOOSE i \in at : TRUE) + 1, Len(lines))

\* The request whose response is out was a get-context of an existing user.
ExistingUserReturned == ContextReturned /\ ~out.body.is_new_user

\* C9 as stated (SpecLog): when the window of up to 5 most recent records an
\* existing user's get-context fetched is not empty, the history block
\* quotes min(3, size of the window) records of the window, each as a
\* 'User: ' line and an 'ORA: ' line, oldest first, and they are the most
\* recent ones: no record of the window left out is more recent than a
\* quoted one.
C9_QuotesThreeMostRecent ==
  (ExistingUserReturned /\ out.loc.rows # <<>>) =>
    LET w == out.loc.rows
        k == Min(QuotedExchanges, Len(w))
    IN \E f \in [1..k -> 1..Len(w)] :
         /\ \A i, j \in 1..k : i # j => f[i] # f[j]
         /\ HistoryLines(out.body.context) = Exchanges([i \in 1..k |-> w[f[i]]])
         /\ \A i \in 1..(k - 1) : w[f[i]].timestamp <= w[f[i + 1]].timestamp
         /\ \A j \in 1..Len(w) :
              (\A i \in 1..k : f[i] # j) =>
                \A i \in 1..k : w[j].timestamp <= w[f[i]].timestamp

\* A field of the profile counts as set when it is not NULL.
NonNull(x) == x # None

\* A field of the profile counts as set when it is neither NULL nor empty.
NonEmpty(x) == x # None /\ x # ""

\* The line of a profile field, when the field counts as set.
FieldLine(IsSet(_), label, x) == IF IsSet(x) THEN <<<<label, x>>>> ELSE <<>>

\* The context of an existing user's get-context is made of the name line,
\* the personality line, the communication style line, each iff the field
\* counts as set, the total line iff the stored counter is > 0, and the
\* history block (its header, then 'User: ' and 'ORA: ' lines in turn) iff
\* the user has a record, in this order; it is the fallback when no line is
\* produced.
ContextShape(IsSet(_)) ==
  ExistingUserReturned =>
    LET u == out.data["user_id"]
        r == CHOOSE x \in SelectUser(db, u) : TRUE
        lines == Lines(out.body.context)
        head == FieldLine(IsSet, "User's name: ", r.name)
                \o FieldLine(IsSet, "Personality: ", r.personality_type)
                \o FieldLine(IsSet, "Communication style: ", r.communication_style)
                \o (IF r.total_conversations > 0
                      THEN <<<<"Total conversations: ",
                               ToString(r.total_conversations)>>>>
                      ELSE <<>>)
        block == HistoryLines(out.body.context)
    IN IF head = <<>> /\ CountFor(db, u) = 0
         THEN out.body.context = <<<<"Returning user with no previous context">>>>
         ELSE IF CountFor(db, u) = 0 THEN lines = head
         ELSE /\ lines = head \o <<HistoryHeader>> \o block
              /\ block # <<>>
              /\ \A i \in 1..Len(block) :
                   block[i][1] = IF i % 2 = 1 THEN "User: " ELSE "ORA: "

\* C10 as stated (SpecProfile): the lines of an existing user's context are
\* name, personality, communication style, total conversations, history, in
\* this order, each of the first three present iff the field is not NULL.
C10_ContextLinesNonNull == ContextShape(NonNull)

\* C10 as amended (SpecProfile): the lines of an existing user's context are
\* name, personality, communication style, total conversations, history, in
\* this order, each of the first three present iff the field is neither NULL
\* nor the empty string; the total line iff the counter is > 0, the history
\* block iff the user has a record, and the fallback when there is no line.
C10_ContextLinesNonEmpty == ContextShape(NonEmpty)

\* get-context returned for a user named Alex, with no personality and no
\* communication style, a counter of 2 and 2 records: 7 lines.
C10_Witness ==
  /\ ExistingUserReturned
  /\ \E r \in SelectUser(db, out.data["user_id"]) :
       /\ r.name = "Alex"
       /\ r.personality_type = None
       /\ r.total_conversations = 2
  /\ CountFor(db, out.data["user_id"]) = 2
  /\ Len(Lines(out.body.context)) = 7

\* The user_ids of the conversation records without a profile.
Orphans ==
  {db.conversations[i].user_id : i \in DOMAIN db.conversations}
    \ {r.user_id : r \in db.users}

\* C11 as stated (SpecSeq): in every reachable state every conversation
\* record's user_id has a profile.
C11_NoOrphans == Orphans = {}

\* C11 as amended (SpecSeq): a conversation record is without a profile only
\* while no get-context call has created the profile of its user_id: the
\* user of an orphaned record has never been answered is_new_user = true and
\* none of its saves was committed with a profile in place; every record of
\* a user whose get-context has returned has a profile.
C11_OrphansOnlyBeforeFirstContext ==
  /\ \A u \in Orphans : hist.newUser[u] = 0 /\ hist.counted[u] = 0
  /\ \A u \in UserIds :
       hist.newUser[u] > 0 =>
         (SelectUser(db, u) # {} /\ u \notin Orphans)

\* One user's record was saved after its get-context and has a profile;
\* the other user's record was saved with no get-context and has none.
C11_Witness ==
  /\ Orphans = {"u2"}
  /\ SelectUser(db, "u1") # {}
  /\ CountFor(db, "u1") = 1
  /\ hist.counted["u1"] = 1

\* The step starts an update-profile request whose body has a user_id and
\* none of the recognized keys; data is the body.
StartsUpdateWithoutKeys(data) ==
  /\ pc[Worker] = "idle"
  /\ \/ pc'[Worker] = "idle" /\ out'.op = "update-profile" /\ out'.data = data
     \/ pc'[Worker] # "idle" /\ req'[Worker].op = "update-profile"
          /\ req'[Worker].data = data
  /\ Present(data, "user_id")
  /\ DOMAIN data \cap RecognizedKeys = {}

\* C12 (SpecSeq): an update-profile request with a user_id and no
\* recognized key is answered 400 at once and writes nothing: the profiles
\* (the target's last_visit included), the conversation records, the view
\* and the lock are the same before and after it.
C12_UpdateWithoutKeysRejected ==
  [][\A data \in IdBodies(UserIds) :
       StartsUpdateWithoutKeys(data) =>
         /\ pc'[Worker] = "idle"
         /\ out'.status = 400
         /\ db' = db
         /\ view' = view
         /\ lock' = lock]_vars

\* update-profile with a user_id alone was answered 400 for a user who has
\* a profile and a conversation.
C12_Witness ==
  /\ out.op = "update-profile"
  /\ out.status = 400
  /\ DOMAIN out.data = {"user_id"}
  /\ Present(out.data, "user_id")
  /\ SelectUser(db, out.data["user_id"]) # {}
  /\ CountFor(db, out.data["user_id"]) > 0

\* The request whose response is out was a search-conversations without a
\* limit, or with a limit of 0 or less, that returned 200.
SearchReturnedDefault ==
  /\ out.op = "search-conversations"
  /\ out.status = 200
  /\ HasKey(out.data, "limit") => out.data["limit"] <= 0

\* C13 as stated (SpecSeq): search-conversations without a limit, or with a
\* limit of 0 or less, returns min(50, M) records of the user's M, in
\* timestamp-descending order.
C13_NonPositiveLimitIsDefault ==
  SearchReturnedDefault =>
    LET rows == out.body.results
    IN /\ Len(rows) = Min(DefaultLimit, CountFor(db, out.data["user_id"]))
       /\ \A i \in 1..(Len(rows) - 1) : rows[i].timestamp >= rows[i + 1].timestamp

\* The line feed.
Newline == <<"\n">>

\* C14 as stated (SpecLog): when the context of an existing user has two
\* lines or more, what stands between two consecutive lines is one line
\* feed.
C14_JoinedByNewline ==
  (ExistingUserReturned /\ Len(Lines(out.body.context)) >= 2) =>
    \A i \in 1..Len(out.body.context) :
      i % 2 = 0 => out.body.context[i] = Newline

\* C15 (SpecLong): get-context of an existing user with M records reports
\* recent_conversations_count = min(5, M), the size of the window fetched,
\* whatever the number of records quoted in the text.
C15_CountIsWindowSize ==
  ExistingUserReturned =>
    /\ out.body.recent_conversations_count
         = Min(ContextWindow, CountFor(db, out.data["user_id"]))
    /\ out.body.recent_conversations_count = Len(out.loc.rows)

\* get-context returned for a user with 6 records: the count is 5 and the
\* text quotes 3 records (6 lines after the header).
C15_Witness ==
  /\ ExistingUserReturned
  /\ CountFor(db, out.data["user_id"]) = 6
  /\ out.body.recent_conversations_count = 5
  /\ Len(HistoryLines(out.body.context)) = 6

\* The step leaves every stored record as it is and where it is; it adds a
\* record only by committing a save-conversation call, one at a time, and
\* the new record's id is greater than every id stored or assigned before.
LogOnlyGrows ==
  LET old == db.conversations
      new == db'.conversations
  IN /\ Len(new) >= Len(old)
     /\ SubSeq(new, 1, Len(old)) = old
     /\ Len(new) > Len(old) =>
          /\ Len(new) = Len(old) + 1
          /\ \E p \in Procs :
               /\ pc[p] = "sc_commit"
               /\ pc'[p] = "idle"
               /\ out'.op = "save-conversation"
               /\ out'.status = 200
               /\ new[Len(new)].user_id = out'.data["user_id"]
          /\ new[Len(new)].id > db.seq
          /\ \A i \in 1..Len(old) : new[Len(new)].id > old[i].id

\* C16 (SpecSeq): the conversation log only grows. Every step of every
\* operation keeps the stored records unchanged and present; a record is
\* added only by save-conversation, and its id is strictly greater than
\* every id assigned before, whatever the user.
C16_LogOnlyGrows == [][LogOnlyGrows]_vars

\* Two users have saved a conversation each: the records have ids 1 and 2
\* in the order of the saves, and other operations have run since.
C16_Witness ==
  /\ Len(db.conversations) = 2
  /\ db.conversations[1].id = 1
  /\ db.conversations[2].id = 2
  /\ db.conversations[1].user_id # db.conversations[2].user_id
  /\ out.op = "update-profile"
  /\ out.status = 200

\* C17 (Spec): when get-context calls for the same never-seen user_id run
\* concurrently, at most one is answered is_new_user = true, the user has
\* exactly one profile row once one of them has been, and none before; every
\* other call is answered is_new_user = false, having found the profile, or
\* an error (500).
C17_ConcurrentFirstContext ==
  /\ \A u \in UserIds :
       /\ hist.newUser[u] <= 1
       /\ Cardinality(SelectUser(db, u)) = hist.newUser[u]
  /\ out.op = "get-context" =>
       \/ out.status = 500
       \/ /\ out.status = 200
          /\ out.body.is_new_user => out.loc.user = {}
          /\ ~out.body.is_new_user =>
               (out.loc.user # {} /\ hist.newUser[out.data["user_id"]] = 1)

\* The loser of a race: a get-context call that found no profile was
\* answered 500 at its INSERT, the other call having created the profile.
C17_Witness ==
  /\ out.op = "get-context"
  /\ out.status = 500
  /\ out.at = "gc_insert"
  /\ out.loc.user = {}
  /\ out.body.error = "UNIQUE constraint failed: users.user_id"
  /\ hist.newUser[out.data["user_id"]] = 1
  /\ Cardinality(SelectUser(db, out.data["user_id"])) = 1

\* C18 (Spec): in every reachable state, under every interleaving, the
\* stored total_conversations of each profile is at least 0 and at most the
\* number of the user's conversation records, and it is the number of
\* save-conversation calls for the user committed since the profile exists.
C18_CounterWithinRecords ==
  \A u \in UserIds : \A r \in SelectUser(db, u) :
    /\ r.total_conversations >= 0
    /\ r.total_conversations <= CountFor(db, u)
    /\ r.total_conversations = hist.counted[u]

\* A user's profile counts 1 conversation of the 2 on record: one was saved
\* before the profile was created, one after.
C18_Witness ==
  /\ CountFor(db, "u1") = 2
  /\ Total(db, "u1") = 1
  /\ SelectUser(db, "u1") # {}
  /\ hist.saved["u1"] = 2
  /\ hist.counted["u1"] = 1

\* C19 as stated (Spec): every get-stats response that succeeds has
\* recent_conversations <= total_conversations, save-conversation calls
\* committing between its two COUNT queries included.
C19_RecentWithinTotal ==
  (out.op = "get-stats" /\ out.status = 200) =>
    out.body.recent_conversations <= out.body.total_conversations

\* Every profile's last_visit is at least its first_visit.
LastVisitAfterFirst ==
  \A r \in db.users : r.last_visit >= r.first_visit

\* The step does not move any profile's last_visit back.
LastVisitNotBack ==
  \A r \in db.users : \A r2 \in SelectUser(db', r.user_id) :
    r2.last_visit >= r.last_visit

\* C20 as stated (Spec): under every interleaving of get-context,
\* save-conversation and update-profile calls for a user, the profile's
\* last_visit is never less than its first_visit and never decreases.
C20_LastVisitMonotone == []LastVisitAfterFirst /\ [][LastVisitNotBack]_vars

==========================================================================
